---- MODULE Spec2Model ----
(***************************************************************************)
(* launchmeow: the Flap (BSC) token launch of src/services/flap/flap.ts    *)
(* and the CREATE2 vanity-salt search it runs, on the single JavaScript    *)
(* thread it shares with the pump.fun launch of the same tweet and with    *)
(* the callbacks of the other target users (main.ts, x.ts).                *)
(*                                                                         *)
(* Bytes32 values (seeds, salts) are the integers 0..NumSalts-1.  keccak256*)
(* and the CREATE2 address derivation are library functions (viem) whose   *)
(* values cannot be computed here: they are fixed but unknown functions,   *)
(* and keccakTable / create2Table hold the part of their graphs that has   *)
(* been evaluated so far.  A first evaluation at a new argument draws the  *)
(* value from the whole range; every later one reads the table.            *)
(*                                                                         *)
(* A derived address is represented by the last six characters of its      *)
(* checksummed (mixed-case) hex form.                                      *)
(*                                                                         *)
(* XMonitor.startMonitoring with the exit of start() (MonitorSpec),        *)
(* AIService.generateTokenMetadata (AiSpec), ImageService.getRandomImage   *)
(* (ImageSpec) and the initial buys of the two launches (BuySpec) are      *)
(* systems of their own over the same state: each leaves the variables of  *)
(* the others at their idle values.                                        *)
(***************************************************************************)
EXTENDS Integers, Sequences, FiniteSets, TLC

\* ------------------------------------------------------------------ bounds
NumSalts == 2

Salts == 0 .. (NumSalts - 1)
\* crypto.randomBytes(32): two of the 32-byte values it can return
Seeds == {0, 1}
\* the target users whose callbacks are in flight
Tweets == {"u1", "u2"}
\* The iteration counter is a JS number that grows without bound; the model
\* counts up to IterCap and from there on keeps only "IterCap or more".  A chain
\* has at most NumSalts distinct salts, so a search that has rejected IterCap
\* salts has rejected every salt of its chain.
IterCap == NumSalts

\* --------------------------------------------------------------- constants
\* A 20-byte address constant is written as '0x' and the last six characters of
\* its checksummed hex form.
\* '0xe2cE6ab80874Fa9Fa2aAE65D277Dd6B8e65C9De0'
FLAP_PORTAL_ADDRESS == <<"0", "x", "5", "C", "9", "D", "e", "0">>

\* '0x8B4329947e34B6d56D71A3385caC122BaDe7d78D'
NON_TAX_TOKEN_IMPL == <<"0", "x", "e", "7", "d", "7", "8", "D">>

\* Tax Token V1 of the portal, '0x29e6383F0ce68507b5A72a53c2B118a118332aA8'
\* (FLAP_INTEGRATION.md): another implementation the portal can clone
TAX_TOKEN_V1_IMPL == <<"0", "x", "3", "3", "2", "a", "A", "8">>

\* const suffix = '8888'
VANITY_SUFFIX == <<"8", "8", "8", "8">>

ZERO_ADDRESS == <<"0", "0", "0", "0", "0", "0">>

\* the addresses a CREATE2 derivation can yield (last six characters)
Addresses ==
  { <<"d", "E", "8", "8", "8", "8">>,
    <<"8", "8", "8", "8", "d", "E">>,
    <<"3", "C", "9", "8", "8", "8">> }

\* ------------------------------------------------------------ string helpers
\* String.prototype.toLowerCase on one hex character
LowerChar(c) ==
  CASE c = "A" -> "a"
    [] c = "B" -> "b"
    [] c = "C" -> "c"
    [] c = "D" -> "d"
    [] c = "E" -> "e"
    [] c = "F" -> "f"
    [] OTHER -> c

toLowerCase(s) == [i \in 1 .. Len(s) |-> LowerChar(s[i])]

\* String.prototype.slice(2)
slice2(s) == SubSeq(s, 3, Len(s))

\* mutant: startsWith in place of endsWith
EndsWithFirstChars(s, suf) ==
  /\ Len(suf) <= Len(s)
  /\ SubSeq(s, 1, Len(suf)) = suf

\* mutant: an empty suffix never matches
EndsWithNonEmpty(s, suf) ==
  /\ Len(suf) > 0
  /\ Len(suf) <= Len(s)
  /\ SubSeq(s, Len(s) - Len(suf) + 1, Len(s)) = suf

\* String.prototype.endsWith
endsWith(s, suf) ==
  /\ Len(suf) <= Len(s)
  /\ SubSeq(s, Len(s) - Len(suf) + 1, Len(s)) = suf

\* ------------------------------------------------------------------- state
VARIABLES
  suffix,        \* the suffix of findVanityTokenSalt
  keccakTable,   \* keccak256, as far as evaluated
  create2Table,  \* getContractAddress (CREATE2), as far as evaluated
  running,       \* the task executing on the JS thread, or "none"
  flapPc,        \* per tweet: where FlapService.createToken stands
  pumpPc,        \* per tweet: where PumpFunService.createToken stands
  seed,          \* per tweet: findVanityTokenSalt's seed
  salt,          \* per tweet: findVanityTokenSalt's salt
  iterations,    \* per tweet: findVanityTokenSalt's iterations
  tested,        \* per tweet: the address the loop condition computed last
  found,         \* per tweet: what findVanityTokenSalt returned
  io,            \* network and disk requests issued so far
  txParams,      \* per tweet: the salt passed to newTokenV5
  metadataCid,   \* per tweet: what uploadFlapMetadata returned to createToken
  deployed,      \* per tweet: what the portal did with the transaction
  tokenAddress   \* per tweet: the address createToken returned

searchLocals == <<seed, salt, iterations, tested, found>>
hashTables == <<keccakTable, create2Table>>
serviceState == <<io, txParams, deployed, tokenAddress, pumpPc, suffix>>
launchVars == <<suffix, keccakTable, create2Table, running, flapPc, pumpPc, seed,
                salt, iterations, tested, found, io, metadataCid, txParams, deployed,
                tokenAddress>>

\* XMonitor.startMonitoring (x.ts) and start() (main.ts)
VARIABLES
  mock,              \* getConfig().mock, or NoMock when config.yaml has none
  fetchPc,           \* per target user: where the user's fetch stands
  timeline,          \* per target user: what userTimeline answered
  apiCreditsError,   \* startMonitoring's apiCreditsError
  processedAnyTweet, \* startMonitoring's processedAnyTweet
  calls,             \* the invocations of the callback, in order, with the
                     \* state of the promise each returned
  monPc,             \* where startMonitoring stands, or how it settled
  mainPc             \* where start() stands

monitorVars == <<mock, fetchPc, timeline, apiCreditsError, processedAnyTweet, calls,
                 monPc, mainPc>>

\* AIService.generateTokenMetadata (ai.ts)
VARIABLES
  tweetText,    \* the tweet text it is called with
  completion,   \* what groq.chat.completions.create answers
  metadata      \* what generateTokenMetadata returned

aiVars == <<tweetText, completion, metadata>>

\* ImageService (image.ts)
VARIABLES
  imagesDirectory,  \* the file names readdirSync lists
  readable,         \* the files readFileSync can read
  availableImages,  \* this.availableImages
  randomImage       \* what getRandomImage returned

imageVars == <<imagesDirectory, readable, availableImages, randomImage>>

\* the initial buys of a launch (config.yaml, main.ts, pumpfun.ts, flap.ts)
VARIABLES
  initial_buy,  \* getConfig().initial_buy
  pumpBuy,      \* the buy amount passed to sdk.trade.createAndBuy, in lamports
  flapValue     \* the value sent with newTokenV5, in gwei

buyVars == <<initial_buy, pumpBuy, flapValue>>

\* the media of the tweet handed to the callback (x.ts)
VARIABLES
  response,    \* what userTimeline answered: the tweets and includes.media
  tweetImage   \* the imageUrl and isVideo of the tweet object

mediaVars == <<response, tweetImage>>

\* FlapService.sellTokens and sellAllTokens (flap.ts)
VARIABLES
  sellPc,     \* where the call stands
  balanceOf,  \* the wallet's token balance on the chain
  balance,    \* sellAllTokens' balance: what getTokenBalance answered
  amount,     \* the amount sellTokens is called with
  txs         \* the transactions submitted, in order, with their state

sellVars == <<sellPc, balanceOf, balance, amount, txs>>

\* the end of FlapService.createToken (flap.ts), on its own
VARIABLES
  receipt,           \* receipt.logs of the newTokenV5 transaction
  createTokenResult  \* what createToken returned or threw

receiptVars == <<receipt, createTokenResult>>

\* the services the monitor and the launch model do not step
helpers == <<aiVars, imageVars, buyVars, mediaVars, sellVars, receiptVars>>

\* everything outside the launch of a token
restOfBot == <<monitorVars, helpers>>

vars == <<launchVars, restOfBot>>

NoSalt == -1
NoAddress == <<>>
NoResult == [salt |-> NoSalt, address |-> NoAddress]
NoDeployment == [impl |-> <<>>, token |-> NoAddress]

\* ------------------------------------------------------------- hash functions
\* toHex(seed): seed is the string '0x<64 hex>', so viem's toHex encodes the 66
\* ASCII characters of that text, not the 32 bytes: a value outside Bytes32
toHex(s) == NumSalts + s

\* toBytes(salt): the byte array of a hex value
toBytes(h) == [bytes |-> h]

\* A library hash function h at argument x, where table is the part of h's graph
\* evaluated so far and fresh the value a first evaluation at x turns out to have
Apply(table, x, fresh) == IF x \in DOMAIN table THEN table[x] ELSE fresh

Evaluated(table, x, fresh) ==
  IF x \in DOMAIN table THEN table ELSE (x :> fresh) @@ table

\* the values fresh can take: any of range at a first evaluation; afterwards the
\* value is known
Fresh(table, x, range) == IF x \in DOMAIN table THEN {table[x]} ELSE range

\* keccak256(x)
keccak256(x, fresh) == Apply(keccakTable, x, fresh)

\* the EIP-1167 minimal proxy of impl, as predictVanityTokenAddress splices it
MinimalProxyBytecode(impl) ==
  <<"0x3d602d80600a3d3981f3363d3d373d3d3d363d73">>
    \o toLowerCase(slice2(impl))
    \o <<"5af43d82803e903d91602b57fd5bf3">>

\* what a CREATE2 address is derived from: the deployer's 20 bytes (the case of
\* its hex form does not matter), the salt bytes and the init code
Create2Args(from, saltBytes, bytecode) == <<toLowerCase(from), saltBytes, bytecode>>

\* getContractAddress({from, salt, bytecode, opcode: 'CREATE2'})
getContractAddress(args, fresh) == Apply(create2Table, args, fresh)

\* mutant: the implementation's address passed as `from`
PredictArgsFromImpl(s) ==
  Create2Args(NON_TAX_TOKEN_IMPL, toBytes(s), MinimalProxyBytecode(NON_TAX_TOKEN_IMPL))

\* the argument predictVanityTokenAddress(salt) passes to getContractAddress
PredictArgs(s) ==
  Create2Args(FLAP_PORTAL_ADDRESS, toBytes(s), MinimalProxyBytecode(NON_TAX_TOKEN_IMPL))

\* const predictVanityTokenAddress = (salt) => getContractAddress({...})
predictVanityTokenAddress(s, fresh) == getContractAddress(PredictArgs(s), fresh)

\* ------------------------------------------------ x.ts: tweets and config
\* this.targetUsers = getConfig().target_users
targetUsers == Tweets

\* the entries a timeline answer can hold (TweetV2: id, text)
Entries == {[id |-> "1", text |-> "gm"], [id |-> "2", text |-> "gn"]}
\* userTimeline(..., { max_results: 5 }): the answers of up to MaxTimeline entries,
\* newest first
MaxTimeline == 2
Timelines == UNION {[1 .. n -> Entries] : n \in 0 .. MaxTimeline}

\* no answer (yet)
NoTimeline == <<>>
NoMock == [none |-> TRUE]
\* a config.yaml with a mock section
MockConfig ==
  [tweet_text |-> "mock text", user |-> "mockuser", tweet_url |-> <<"mock url">>]

\* `https://x.com/${username}/status/${latestTweet.id}`
TweetUrl(username, id) == <<"https://x.com/", username, "/status/", id>>

\* a variant of LatestTweet that takes the oldest entry of the answer
OldestTweet(tl) == tl[Len(tl)]

\* const latestTweet = timeline.data.data[0]
LatestTweet(tl) == tl[1]

\* the tweet object handed to the callback
TweetOf(username, tl) ==
  [tweetText |-> LatestTweet(tl).text,
   user |-> username,
   tweetUrl |-> TweetUrl(username, LatestTweet(tl).id)]

\* a variant of MockTweet that names a target user as the author
MockTweetFromUser ==
  [tweetText |-> mock.tweet_text, user |-> CHOOSE u \in targetUsers : TRUE,
   tweetUrl |-> mock.tweet_url]

\* const mockTweet = { tweetText: config.mock.tweet_text, ... }
MockTweet ==
  [tweetText |-> mock.tweet_text, user |-> mock.user, tweetUrl |-> mock.tweet_url]

\* callback(tweet): the call runs to its first await and returns a pending promise
Invoked(tweet) == Append(calls, [tweet |-> tweet, state |-> "pending"])

\* the monitor before startMonitoring is called
MonitorIdle ==
  /\ mock = NoMock
  /\ fetchPc = [u \in targetUsers |-> "idle"]
  /\ timeline = [u \in targetUsers |-> NoTimeline]
  /\ apiCreditsError = FALSE
  /\ processedAnyTweet = FALSE
  /\ calls = <<>>
  /\ monPc = "idle"
  /\ mainPc = "idle"

\* ------------------------------------------- ai.ts: generateTokenMetadata
\* A string is a sequence of characters; the characters used here, with their
\* code points: two Latin letters, a CJK ideograph and a kana
CodePoint(c) ==
  CASE c = "a" -> 97
    [] c = "A" -> 65
    [] c = "U+8BDD" -> 35805
    [] c = "U+30C4" -> 12484
Chars == {"a", "A", "U+8BDD", "U+30C4"}

\* /[\u4e00-\u9fa5]/.test(tweetText)
hasChinese(text) ==
  \E i \in 1 .. Len(text) : CodePoint(text[i]) >= 19968 /\ CodePoint(text[i]) <= 40869

UpperChar(c) == IF c = "a" THEN "A" ELSE c
\* a variant of toUpperCase that leaves the string alone
toUpperCaseNot(str) == str
\* String.prototype.toUpperCase
toUpperCase(str) == [i \in 1 .. Len(str) |-> UpperChar(str[i])]

\* The JSON text of the LLM is a sequence of tokens: braces, the literal null
\* and "key": "value" members
Brace(t) == [t |-> t, key |-> "", value |-> <<>>]
Member(key, value) == [t |-> "member", key |-> key, value |-> value]
Names == {<<"a">>, <<"A", "a">>, <<"U+8BDD", "a">>}
Symbols == {<<"a">>, <<"U+8BDD">>}
Keywords == {<<"a">>, <<"A">>}
Contents ==
  {<<>>, <<Brace("{")>>, <<Brace("null")>>, <<Brace("{"), Brace("}")>>}
    \cup {<<Brace("{"), Member("name", n), Brace("}")>> : n \in Names}
    \cup {<<Member("name", n), Brace("}")>> : n \in Names}
    \cup {<<Brace("{"), Member("symbol", sy), Member("keyword", k), Brace("}")>> :
            sy \in Symbols, k \in Keywords}
    \cup {<<Brace("{"), Member("name", n), Member("symbol", sy), Member("keyword", k),
            Brace("}")>> : n \in Names, sy \in Symbols, k \in Keywords}

Undefined == <<"undefined">>
NoCompletion == [kind |-> "none", content |-> <<>>]
\* the create call rejects, answers without a choice, with a null content, or
\* with a text
Completions ==
  {[kind |-> k, content |-> <<>>] : k \in {"rejected", "no choices", "null content"}}
    \cup {[kind |-> "content", content |-> c] : c \in Contents}

\* JSON.parse: an object text is '{' members '}', where a later member of the
\* same key wins; 'null' is null; everything else is a SyntaxError
IsObjectText(c) ==
  /\ Len(c) >= 2
  /\ c[1].t = "{"
  /\ c[Len(c)].t = "}"
  /\ \A i \in 2 .. (Len(c) - 1) : c[i].t = "member"
ObjectOf(c) ==
  [key \in {c[i].key : i \in 2 .. (Len(c) - 1)} |->
     c[CHOOSE i \in 2 .. (Len(c) - 1) :
         /\ c[i].key = key
         /\ \A j \in (i + 1) .. (Len(c) - 1) : c[j].key # key].value]
\* a variant of JSON.parse that does not require the opening brace
JSONparseLenient(c) ==
  IF Len(c) >= 1 /\ c[Len(c)].t = "}" /\ \A i \in 2 .. (Len(c) - 1) : c[i].t = "member"
    THEN [kind |-> "object", object |-> ObjectOf(c)]
    ELSE [kind |-> "SyntaxError", object |-> <<>>]
JSONparse(c) ==
  IF IsObjectText(c) THEN [kind |-> "object", object |-> ObjectOf(c)]
  ELSE IF c = <<Brace("null")>> THEN [kind |-> "null", object |-> <<>>]
  ELSE [kind |-> "SyntaxError", object |-> <<>>]

\* result.name: undefined when the object has no such property
Property(object, key) == IF key \in DOMAIN object THEN object[key] ELSE Undefined

Null == [kind |-> "null"]
NotCalled == [kind |-> "not called"]
Metadata(name, symbol, keyword) ==
  [kind |-> "metadata", name |-> name, symbol |-> symbol, keyword |-> keyword]

\* generateTokenMetadata(tweetText, author), given what the create call answers:
\* every throw inside the try block (the rejection, the SyntaxError, the
\* TypeError of a property of null or of undefined.toUpperCase()) ends in the
\* catch block, which returns null
generateTokenMetadata(text, answer) ==
  IF answer.kind # "content" \/ answer.content = <<>> THEN Null
  ELSE LET result == JSONparse(answer.content)
           name == Property(result.object, "name")
           symbol == Property(result.object, "symbol")
           keyword == Property(result.object, "keyword")
       IN IF result.kind # "object" THEN Null
          ELSE IF hasChinese(text) THEN Metadata(name, symbol, keyword)
          ELSE IF name = Undefined \/ symbol = Undefined THEN Null
          ELSE Metadata(toUpperCase(name), toUpperCase(symbol), keyword)

AiIdle ==
  /\ tweetText = <<>>
  /\ completion = NoCompletion
  /\ metadata = NotCalled

\* ------------------------------------------------------- image.ts, buys
\* A file name is its base name and its extension (path.extname)
FileNames ==
  {<<"pepe", ".png">>, <<"doge", ".JPG">>, <<"notes", ".txt">>, <<"Makefile", "">>}
extname(file) == file[2]
\* toLowerCase of an extension
LowerExt(ext) == IF ext = ".JPG" THEN ".jpg" ELSE ext
\* ['.jpg', '.jpeg', '.png', '.gif', '.webp'].includes(ext)
IsImageFile(file) ==
  LowerExt(extname(file)) \in {".jpg", ".jpeg", ".png", ".gif", ".webp"}
\* loadAvailableImages: files.filter(...)
loadAvailableImages(files) == SelectSeq(files, IsImageFile)

\* Math.random() in quarters, and Math.floor(Math.random() * length)
Randoms == 0 .. 3
randomIndex(r, length) == (r * length) \div Cardinality(Randoms)

\* a variant of Candidates that draws from the whole directory
CandidatesUnfiltered == imagesDirectory
\* the array getRandomImage draws from
Candidates == availableImages

\* getAllImages(): a copy of this.availableImages
getAllImages == availableImages

TokenImage(fileName) ==
  [kind |-> "image", fileName |-> fileName, path |-> <<"assets/token-images", fileName>>]

\* getRandomImage(), given Math.random()
getRandomImage(r) ==
  IF Len(Candidates) = 0 THEN Null
  ELSE LET fileName == Candidates[randomIndex(r, Len(Candidates)) + 1]
       IN IF fileName \in readable THEN TokenImage(fileName) ELSE Null

NoImage == [kind |-> "not called"]
\* An amount of SOL or BNB in config.yaml is counted in units of 0.0001
UnitsPerCoin == 10 ^ 4
LAMPORTS_PER_SOL == 10 ^ 9
\* values in BNB are counted in gwei (10^9 wei): 32-bit arithmetic
GweiPerEther == 10 ^ 9

\* Number.prototype.toString of an amount: its integer part and its four decimals
amountToString(a) == [int |-> a \div UnitsPerCoin, frac |-> a % UnitsPerCoin]
\* viem's parseEther of such a decimal text, in gwei
parseEther(str) ==
  str.int * GweiPerEther + str.frac * (GweiPerEther \div UnitsPerCoin)

\* BigInt(Math.floor(0.001 * LAMPORTS_PER_SOL))
PumpInitialBuy == LAMPORTS_PER_SOL \div 1000
\* main.ts passes config.initial_buy.bsc.toString(); createToken sends
\* value: parseEther(initialBuyAmount)
FlapQuoteAmount == parseEther(amountToString(initial_buy.bsc))

NoBuy == -1

ImageIdle ==
  /\ imagesDirectory = <<>>
  /\ readable = {}
  /\ availableImages = <<>>
  /\ randomImage = NoImage

BuyIdle ==
  /\ initial_buy = [solana |-> 0, bsc |-> 0]
  /\ pumpBuy = NoBuy
  /\ flapValue = NoBuy

\* ------------------------------------------------ x.ts: media of the tweet
\* A property a media object does not have ('url' in media is false)
Absent == "absent"
Photo(key, url) ==
  [media_key |-> key, type |-> "photo", url |-> url, preview_image_url |-> Absent]
Clip(key, type, preview) ==
  [media_key |-> key, type |-> type, url |-> Absent, preview_image_url |-> preview]
\* the media objects of the X API (media.fields: url, preview_image_url, type)
MediaObjects ==
  {Photo("m1", "p1.jpg"), Photo("m2", "p2.jpg"), Photo("m3", Absent),
   Clip("m4", "video", "v4.jpg"), Clip("m5", "video", Absent),
   Clip("m6", "animated_gif", "g6.jpg"), Clip("m7", "animated_gif", Absent)}
NoMediaKey == "none"
MediaKeys == {m.media_key : m \in MediaObjects}
MediaOf(key) == CHOOSE m \in MediaObjects : m.media_key = key

\* a tweet of the answer, with the media key of its attachment if it has one
\* (expansions: attachments.media_keys)
MediaEntries == [media_key : MediaKeys \cup {NoMediaKey}]
HasMedia(entry) == entry.media_key # NoMediaKey
MediaOfEntry(entry) == MediaOf(entry.media_key)

\* const media = timeline.includes.media[0], and the three type branches
ExtractImage(answer) ==
  IF Len(answer.includes) > 0
    THEN LET media == answer.includes[1] IN
      IF media.type = "photo" /\ media.url # Absent
        THEN [kind |-> "built", imageUrl |-> media.url, isVideo |-> FALSE]
      ELSE IF media.type \in {"video", "animated_gif"} /\ media.preview_image_url # Absent
        THEN [kind |-> "built", imageUrl |-> media.preview_image_url, isVideo |-> TRUE]
      ELSE [kind |-> "built", imageUrl |-> Absent, isVideo |-> FALSE]
    ELSE [kind |-> "built", imageUrl |-> Absent, isVideo |-> FALSE]

NoResponse == [data |-> <<>>, includes |-> <<>>]
NoTweetImage == [kind |-> "not built"]

MediaIdle ==
  /\ response = NoResponse
  /\ tweetImage = NoTweetImage

\* no amount: the function that holds it was not called
NoAmount == -1

SellIdle ==
  /\ sellPc = "idle"
  /\ balanceOf = 0
  /\ balance = NoAmount
  /\ amount = NoAmount
  /\ txs = <<>>

\* createToken has neither returned nor thrown
NotReturned == [kind |-> "pending", token |-> NoAddress]

ReceiptIdle == receipt = <<>> /\ createTokenResult = NotReturned

HelpersIdle == AiIdle /\ ImageIdle /\ BuyIdle /\ MediaIdle /\ SellIdle /\ ReceiptIdle

RestIdle == MonitorIdle /\ HelpersIdle

\* uploadFlapMetadata has not returned
NoCid == "not returned"
\* what uploadFlapMetadata returns: null or the CID of the pinned metadata
Cids == {"null", "cid"}

\* -------------------------------------------------------------------- Init
InitCommon ==
  /\ keccakTable = <<>>
  /\ create2Table = <<>>
  /\ running = "none"
  /\ flapPc = [t \in Tweets |-> "idle"]
  /\ pumpPc = [t \in Tweets |-> "idle"]
  /\ seed = [t \in Tweets |-> NoSalt]
  /\ salt = [t \in Tweets |-> NoSalt]
  /\ iterations = [t \in Tweets |-> 0]
  /\ tested = [t \in Tweets |-> NoAddress]
  /\ found = [t \in Tweets |-> NoResult]
  /\ io = {}
  /\ metadataCid = [t \in Tweets |-> NoCid]
  /\ txParams = [t \in Tweets |-> NoSalt]
  /\ deployed = [t \in Tweets |-> NoDeployment]
  /\ tokenAddress = [t \in Tweets |-> NoAddress]

Init ==
  /\ suffix = VANITY_SUFFIX
  /\ InitCommon
  /\ RestIdle

\* findVanityTokenSalt with its suffix as a parameter (the spec's
\* findVanitySalt(deployer, implementationTemplate, suffix))
Suffixes == {<<>>, <<"8", "8", "8">>, VANITY_SUFFIX}

InitAnySuffix ==
  /\ suffix \in Suffixes
  /\ InitCommon
  /\ RestIdle

\* ------------------------------------------------- main.ts: onTweetFound
\* Promise.all([pumpFun.createToken(...), flap.createToken(...)]): both calls run
\* to their first await; the pump.fun launch and the metadata upload are in flight
OnTweetFound(t) ==
  /\ UNCHANGED <<restOfBot, metadataCid>>
  /\ running = "none"
  /\ flapPc[t] = "idle"
  /\ flapPc' = [flapPc EXCEPT ![t] = "upload"]
  /\ pumpPc' = [pumpPc EXCEPT ![t] = "pending"]
  /\ io' = io \cup {[kind |-> "pumpFun.createToken", by |-> t],
                    [kind |-> "uploadFlapMetadata", by |-> t]}
  /\ UNCHANGED <<suffix, hashTables, running, searchLocals, txParams, deployed,
                 tokenAddress>>

\* the pump.fun launch of tweet t settles (a mint address or null)
PumpSettles(t) ==
  /\ UNCHANGED <<restOfBot, metadataCid>>
  /\ running = "none"
  /\ pumpPc[t] = "pending"
  /\ pumpPc' = [pumpPc EXCEPT ![t] = "settled"]
  /\ UNCHANGED <<suffix, hashTables, running, flapPc, searchLocals, io, txParams,
                 deployed, tokenAddress>>

\* ------------------------------------------- flap.ts: FlapService.createToken
\* await uploadFlapMetadata(...) settles with a CID or null; on null createToken
\* throws, otherwise its continuation takes the thread and calls
\* findVanityTokenSalt()
\* a variant of UploadSettles without `if (!metadataCid) throw`
UploadSettlesUnchecked(t, cid) ==
  /\ UNCHANGED restOfBot
  /\ running = "none"
  /\ flapPc[t] = "upload"
  /\ metadataCid' = [metadataCid EXCEPT ![t] = cid]
  /\ flapPc' = [flapPc EXCEPT ![t] = "search"]
  /\ running' = t
  /\ UNCHANGED <<suffix, hashTables, pumpPc, searchLocals, io, txParams, deployed,
                 tokenAddress>>

UploadSettles(t, cid) ==
  /\ UNCHANGED restOfBot
  /\ running = "none"
  /\ flapPc[t] = "upload"
  /\ metadataCid' = [metadataCid EXCEPT ![t] = cid]
  /\ IF cid = "null"
       THEN /\ flapPc' = [flapPc EXCEPT ![t] = "failed"]
            /\ UNCHANGED running
       ELSE /\ flapPc' = [flapPc EXCEPT ![t] = "search"]
            /\ running' = t
  /\ UNCHANGED <<suffix, hashTables, pumpPc, searchLocals, io, txParams, deployed,
                 tokenAddress>>

\* ------------------------------------------------ flap.ts: findVanityTokenSalt
\* what keccak256 is applied to for the first salt: toHex(seed)
SeedPreimage(s) == toHex(s)

\* mutant: the seed is fetched from a network service
SearchStartOnline(t) ==
  /\ UNCHANGED <<restOfBot, metadataCid>>
  /\ running = t
  /\ flapPc[t] = "search"
  /\ \E s \in Seeds : \E fresh \in Fresh(keccakTable, SeedPreimage(s), Salts) :
       /\ seed' = [seed EXCEPT ![t] = s]
       /\ salt' = [salt EXCEPT ![t] = keccak256(SeedPreimage(s), fresh)]
       /\ keccakTable' = Evaluated(keccakTable, SeedPreimage(s), fresh)
  /\ iterations' = [iterations EXCEPT ![t] = 0]
  /\ flapPc' = [flapPc EXCEPT ![t] = "loop"]
  /\ io' = io \cup {[kind |-> "fetch seed", by |-> t]}
  /\ UNCHANGED <<suffix, create2Table, running, pumpPc, tested, found, txParams,
                 deployed, tokenAddress>>

\* const seed = randomBytes(32); let salt = keccak256(toHex(seed)); iterations = 0
SearchStart(t) ==
  /\ UNCHANGED <<restOfBot, metadataCid>>
  /\ running = t
  /\ flapPc[t] = "search"
  /\ \E s \in Seeds : \E fresh \in Fresh(keccakTable, SeedPreimage(s), Salts) :
       /\ seed' = [seed EXCEPT ![t] = s]
       /\ salt' = [salt EXCEPT ![t] = keccak256(SeedPreimage(s), fresh)]
       /\ keccakTable' = Evaluated(keccakTable, SeedPreimage(s), fresh)
  /\ iterations' = [iterations EXCEPT ![t] = 0]
  /\ flapPc' = [flapPc EXCEPT ![t] = "loop"]
  /\ UNCHANGED <<suffix, create2Table, running, pumpPc, tested, found, io, txParams,
                 deployed, tokenAddress>>

\* the loop condition: !predictVanityTokenAddress(salt).toLowerCase().endsWith(suffix)
LoopCondition(address) == ~endsWith(toLowerCase(address), suffix)

\* mutant: the salt is not replaced
RehashedNot(t, fresh) == salt

\* mutant: one salt shared by all searches (a module-level variable)
RehashedShared(t, fresh) == [u \in Tweets |-> keccak256(salt[t], fresh)]

\* salt = keccak256(salt)
Rehashed(t, fresh) == [salt EXCEPT ![t] = keccak256(salt[t], fresh)]

\* mutant: the counter is not incremented
CountedNot(n) == n

\* iterations++ (from IterCap on, only the parity of the count is kept)
Counted(n) ==
  IF n < IterCap THEN n + 1
  ELSE IF n = IterCap THEN IterCap + 1 ELSE IterCap

\* a variant of LoopStep with a maximum iteration count: at IterCap iterations
\* the search gives up and createToken fails
LoopStepCapped(t) ==
  /\ UNCHANGED <<restOfBot, metadataCid>>
  /\ running = t
  /\ flapPc[t] = "loop"
  /\ IF iterations[t] >= IterCap
       THEN /\ flapPc' = [flapPc EXCEPT ![t] = "failed"]
            /\ running' = "none"
            /\ UNCHANGED <<hashTables, salt, iterations, tested>>
       ELSE /\ UNCHANGED running
            /\ \E freshAddress \in Fresh(create2Table, PredictArgs(salt[t]), Addresses),
                  fresh \in Fresh(keccakTable, salt[t], Salts) :
                 LET address == predictVanityTokenAddress(salt[t], freshAddress) IN
                   /\ create2Table' =
                        Evaluated(create2Table, PredictArgs(salt[t]), freshAddress)
                   /\ tested' = [tested EXCEPT ![t] = address]
                   /\ IF LoopCondition(address)
                        THEN /\ salt' = Rehashed(t, fresh)
                             /\ keccakTable' = Evaluated(keccakTable, salt[t], fresh)
                             /\ iterations' =
                                  [iterations EXCEPT ![t] = Counted(iterations[t])]
                             /\ UNCHANGED flapPc
                        ELSE /\ flapPc' = [flapPc EXCEPT ![t] = "return"]
                             /\ UNCHANGED <<salt, keccakTable, iterations>>
  /\ UNCHANGED <<suffix, pumpPc, seed, found, io, txParams, deployed, tokenAddress>>

\* one evaluation of the loop condition and, when it holds, one run of the body
LoopStep(t) ==
  /\ UNCHANGED <<restOfBot, metadataCid>>
  /\ running = t
  /\ flapPc[t] = "loop"
  /\ \E freshAddress \in Fresh(create2Table, PredictArgs(salt[t]), Addresses),
        fresh \in Fresh(keccakTable, salt[t], Salts) :
       LET address == predictVanityTokenAddress(salt[t], freshAddress) IN
         /\ create2Table' = Evaluated(create2Table, PredictArgs(salt[t]), freshAddress)
         /\ tested' = [tested EXCEPT ![t] = address]
         /\ IF LoopCondition(address)
              THEN /\ salt' = Rehashed(t, fresh)
                   /\ keccakTable' = Evaluated(keccakTable, salt[t], fresh)
                   /\ iterations' = [iterations EXCEPT ![t] = Counted(iterations[t])]
                   /\ UNCHANGED flapPc
              ELSE /\ flapPc' = [flapPc EXCEPT ![t] = "return"]
                   /\ UNCHANGED <<salt, keccakTable, iterations>>
  /\ UNCHANGED <<suffix, running, pumpPc, seed, found, io, txParams, deployed,
                 tokenAddress>>

\* return { salt, address: predictVanityTokenAddress(salt) }
SearchReturn(t) ==
  /\ UNCHANGED <<restOfBot, metadataCid>>
  /\ running = t
  /\ flapPc[t] = "return"
  /\ \E freshAddress \in Fresh(create2Table, PredictArgs(salt[t]), Addresses) :
       /\ found' = [found EXCEPT ![t] =
                      [salt |-> salt[t],
                       address |-> predictVanityTokenAddress(salt[t], freshAddress)]]
       /\ create2Table' = Evaluated(create2Table, PredictArgs(salt[t]), freshAddress)
  /\ flapPc' = [flapPc EXCEPT ![t] = "submit"]
  /\ UNCHANGED <<suffix, keccakTable, running, pumpPc, seed, salt, iterations, tested,
                 io, txParams, deployed, tokenAddress>>

\* ----------------------------------- flap.ts: createToken after the search
\* mutant: the seed passed as the salt
ParamsSaltFromSeed(t) == seed[t]

\* params.salt of NewTokenV5Params: the salt findVanityTokenSalt returned
ParamsSalt(t) == found[t].salt

\* the continuation of `await findVanityTokenSalt()`: builds params and calls
\* walletClient.writeContract(newTokenV5), whose await frees the thread
SubmitTx(t) ==
  /\ UNCHANGED <<restOfBot, metadataCid>>
  /\ running = t
  /\ flapPc[t] = "submit"
  /\ txParams' = [txParams EXCEPT ![t] = ParamsSalt(t)]
  /\ io' = io \cup {[kind |-> "newTokenV5", by |-> t]}
  /\ flapPc' = [flapPc EXCEPT ![t] = "confirm"]
  /\ running' = "none"
  /\ UNCHANGED <<suffix, hashTables, pumpPc, searchLocals, deployed, tokenAddress>>

\* The Flap portal contract (not part of the repository).  newTokenV5 clones an
\* implementation with CREATE2 and the caller's salt.
PortalImpls == {NON_TAX_TOKEN_IMPL, TAX_TOKEN_V1_IMPL}

\* the CREATE2 of newTokenV5, executed by the contract the transaction was sent to
PortalCreate2Args(impl, s) ==
  Create2Args(FLAP_PORTAL_ADDRESS, toBytes(s), MinimalProxyBytecode(impl))

Log(kind, token) == [kind |-> kind, token |-> token]

\* the logs of a mined newTokenV5 transaction that created token
ReceiptLogs(token) ==
  { <<Log("TokenCreated", token)>>,
    <<Log("Undecodable", NoAddress), Log("TokenCreated", token)>>,
    <<Log("NoTopics", NoAddress), Log("OtherEvent", NoAddress),
      Log("TokenCreated", token)>>,
    <<Log("OtherEvent", NoAddress)>> }

\* a variant of ParseLogs without the break: the last TokenCreated log wins
RECURSIVE ParseLogsLast(_)
ParseLogsLast(logs) ==
  IF logs = <<>> THEN ZERO_ADDRESS
  ELSE IF logs[Len(logs)].kind = "TokenCreated" THEN logs[Len(logs)].token
  ELSE ParseLogsLast(SubSeq(logs, 1, Len(logs) - 1))

\* for (const log of receipt.logs) { ... decodeEventLog ... break / continue }
RECURSIVE ParseLogs(_)
ParseLogs(logs) ==
  IF logs = <<>> THEN ZERO_ADDRESS
  ELSE IF Head(logs).kind = "TokenCreated" THEN Head(logs).token
  ELSE ParseLogs(Tail(logs))

\* waitForTransactionReceipt settles; the logs are parsed; createToken returns
\* { tokenAddress, txHash } or throws 'Token address not found in transaction logs'
Receipt(t) ==
  /\ UNCHANGED <<restOfBot, metadataCid>>
  /\ running = "none"
  /\ flapPc[t] = "confirm"
  /\ \/ \* the transaction reverted: nothing deployed, no logs
        /\ flapPc' = [flapPc EXCEPT ![t] = "failed"]
        /\ UNCHANGED <<deployed, tokenAddress, create2Table>>
     \/ \E i \in PortalImpls :
        \E freshAddress \in Fresh(create2Table, PortalCreate2Args(i, txParams[t]), Addresses) :
          LET args == PortalCreate2Args(i, txParams[t])
              token == getContractAddress(args, freshAddress)
          IN /\ create2Table' = Evaluated(create2Table, args, freshAddress)
             /\ deployed' = [deployed EXCEPT ![t] =
                               [impl |-> i, token |-> token]]
             /\ \E logs \in ReceiptLogs(token) :
                  IF ParseLogs(logs) = ZERO_ADDRESS
                    THEN /\ flapPc' = [flapPc EXCEPT ![t] = "failed"]
                         /\ UNCHANGED tokenAddress
                    ELSE /\ flapPc' = [flapPc EXCEPT ![t] = "created"]
                         /\ tokenAddress' = [tokenAddress EXCEPT ![t] = ParseLogs(logs)]
  /\ UNCHANGED <<suffix, keccakTable, running, pumpPc, searchLocals, io, txParams>>

\* ------------------------------------------------------------ specification
\* a step of the task that holds the thread
EngineStep ==
  \E t \in Tweets : SearchStart(t) \/ LoopStep(t) \/ SearchReturn(t) \/ SubmitTx(t)

Next ==
  \E t \in Tweets :
    \/ OnTweetFound(t)
    \/ PumpSettles(t)
    \/ \E cid \in Cids : UploadSettles(t, cid)
    \/ SearchStart(t)
    \/ LoopStep(t)
    \/ SearchReturn(t)
    \/ SubmitTx(t)
    \/ Receipt(t)

Spec == Init /\ [][Next]_vars

\* A run in which only the first target user has a tweet: the callback of the
\* others is never invoked
InitOneTweet ==
  /\ suffix = VANITY_SUFFIX
  /\ keccakTable = <<>>
  /\ create2Table = <<>>
  /\ running = "none"
  /\ flapPc = [t \in Tweets |-> IF t = "u1" THEN "idle" ELSE "no tweet"]
  /\ pumpPc = [t \in Tweets |-> "idle"]
  /\ seed = [t \in Tweets |-> NoSalt]
  /\ salt = [t \in Tweets |-> NoSalt]
  /\ iterations = [t \in Tweets |-> 0]
  /\ tested = [t \in Tweets |-> NoAddress]
  /\ found = [t \in Tweets |-> NoResult]
  /\ io = {}
  /\ metadataCid = [t \in Tweets |-> NoCid]
  /\ txParams = [t \in Tweets |-> NoSalt]
  /\ deployed = [t \in Tweets |-> NoDeployment]
  /\ tokenAddress = [t \in Tweets |-> NoAddress]
  /\ RestIdle

\* the launch of the one tweet, whatever the scheduling
SpecOneTweet == InitOneTweet /\ [][Next]_vars

\* the JS engine keeps executing the task that holds the thread
FairSpec == InitOneTweet /\ [][Next]_vars /\ WF_vars(EngineStep)

SpecAnySuffix == InitAnySuffix /\ [][Next]_vars

\* --------------------------------------------- x.ts: XMonitor.startMonitoring
\* what a request of the X API can fail with: an error such as 429, or 402
FetchErrors == {"error", "credits depleted"}

\* catch (error): err.code === 402 || err.data?.title === 'CreditsDepleted' sets
\* apiCreditsError; every other error is only logged
Caught(u, error) ==
  /\ fetchPc' = [fetchPc EXCEPT ![u] = error]
  /\ apiCreditsError' = (apiCreditsError \/ error = "credits depleted")

\* await this.client.v2.userByUsername(username) settles
LookupSettles(u, answer) ==
  /\ fetchPc[u] = "lookup"
  /\ mainPc = "monitoring"
  /\ CASE answer = "data" ->
            /\ fetchPc' = [fetchPc EXCEPT ![u] = "timeline"]
            /\ UNCHANGED apiCreditsError
       [] answer = "no data" ->
            /\ fetchPc' = [fetchPc EXCEPT ![u] = "not found"]
            /\ UNCHANGED apiCreditsError
       [] OTHER -> Caught(u, answer)
  /\ UNCHANGED <<launchVars, helpers, mock, timeline, processedAnyTweet, calls, monPc, mainPc>>

\* a variant of TimelineSettles in which the continuation of a fetch waits until
\* no callback is pending
TimelineSettlesInTurn(u, answer) ==
  /\ fetchPc[u] = "timeline"
  /\ mainPc = "monitoring"
  /\ \A i \in DOMAIN calls : calls[i].state # "pending"
  /\ timeline' = [timeline EXCEPT ![u] = answer]
  /\ IF Len(answer) = 0
       THEN /\ fetchPc' = [fetchPc EXCEPT ![u] = "empty"]
            /\ UNCHANGED <<processedAnyTweet, calls>>
       ELSE /\ fetchPc' = [fetchPc EXCEPT ![u] = "tweet"]
            /\ processedAnyTweet' = TRUE
            /\ calls' = Invoked(TweetOf(u, answer))
  /\ UNCHANGED <<launchVars, helpers, mock, apiCreditsError, monPc, mainPc>>

\* await this.client.v2.userTimeline(user.data.id, ...) settles with an answer:
\* the newest entry, if there is one, goes to the callback
TimelineSettles(u, answer) ==
  /\ fetchPc[u] = "timeline"
  /\ mainPc = "monitoring"
  /\ timeline' = [timeline EXCEPT ![u] = answer]
  /\ IF Len(answer) = 0
       THEN /\ fetchPc' = [fetchPc EXCEPT ![u] = "empty"]
            /\ UNCHANGED <<processedAnyTweet, calls>>
       ELSE /\ fetchPc' = [fetchPc EXCEPT ![u] = "tweet"]
            /\ processedAnyTweet' = TRUE
            /\ calls' = Invoked(TweetOf(u, answer))
  /\ UNCHANGED <<launchVars, helpers, mock, apiCreditsError, monPc, mainPc>>

\* await this.client.v2.userTimeline(user.data.id, ...) throws
TimelineFails(u, error) ==
  /\ fetchPc[u] = "timeline"
  /\ mainPc = "monitoring"
  /\ Caught(u, error)
  /\ UNCHANGED <<launchVars, helpers, mock, timeline, processedAnyTweet, calls, monPc, mainPc>>

FetchDone(u) == fetchPc[u] \notin {"idle", "lookup", "timeline"}

\* await Promise.all(tweetPromises) settles (no fetch rejects: each catches its
\* errors); then the mock tweet, or the wait for the callbacks
FetchesSettled ==
  /\ monPc = "fetching"
  /\ mainPc = "monitoring"
  /\ \A u \in targetUsers : FetchDone(u)
  /\ IF apiCreditsError /\ ~processedAnyTweet
       THEN IF mock = NoMock
              THEN \* config.mock.tweet_text: TypeError
                   /\ monPc' = "rejected"
                   /\ UNCHANGED calls
              ELSE /\ calls' = Invoked(MockTweet)
                   /\ monPc' = "mock"
       ELSE /\ monPc' = IF Len(calls) > 0 THEN "callbacks" ELSE "resolved"
            /\ UNCHANGED calls
  /\ UNCHANGED <<launchVars, helpers, mock, fetchPc, timeline, apiCreditsError,
                 processedAnyTweet, mainPc>>

\* the promise an invocation of the callback returned settles: onTweetFound
\* returns, or throws what flap.createToken threw
CallbackSettles(i, outcome) ==
  /\ i \in DOMAIN calls
  /\ calls[i].state = "pending"
  /\ mainPc \in {"monitoring", "unhandled rejection"}
  /\ calls' = [calls EXCEPT ![i].state = outcome]
  /\ UNCHANGED <<launchVars, helpers, mock, fetchPc, timeline, apiCreditsError,
                 processedAnyTweet, monPc, mainPc>>

\* await callback(mockTweet) settles; callbackPromises is empty on this path
MockSettled ==
  /\ monPc = "mock"
  /\ mainPc = "monitoring"
  /\ calls[Len(calls)].state # "pending"
  /\ monPc' = IF calls[Len(calls)].state = "fulfilled" THEN "resolved" ELSE "rejected"
  /\ UNCHANGED <<launchVars, helpers, mock, fetchPc, timeline, apiCreditsError,
                 processedAnyTweet, calls, mainPc>>

\* await Promise.all(callbackPromises) settles: fulfilled once every promise is,
\* rejected as soon as one is
CallbacksSettled ==
  /\ monPc = "callbacks"
  /\ mainPc = "monitoring"
  /\ \/ /\ \E i \in DOMAIN calls : calls[i].state = "rejected"
        /\ monPc' = "rejected"
     \/ /\ \A i \in DOMAIN calls : calls[i].state = "fulfilled"
        /\ monPc' = "resolved"
  /\ UNCHANGED <<launchVars, helpers, mock, fetchPc, timeline, apiCreditsError,
                 processedAnyTweet, calls, mainPc>>

\* main.ts: await x.startMonitoring(onTweetFound) settles; process.exit(0) is the
\* next statement of start(), nothing handles a rejection of start()
StartContinues ==
  /\ mainPc = "monitoring"
  /\ monPc \in {"resolved", "rejected"}
  /\ mainPc' = IF monPc = "resolved" THEN "exited" ELSE "unhandled rejection"
  /\ UNCHANGED <<launchVars, helpers, mock, fetchPc, timeline, apiCreditsError,
                 processedAnyTweet, calls, monPc>>

MonitorNext ==
  \/ \E u \in targetUsers :
       \/ \E answer \in {"data", "no data"} \cup FetchErrors : LookupSettles(u, answer)
       \/ \E answer \in Timelines : TimelineSettles(u, answer)
       \/ \E error \in FetchErrors : TimelineFails(u, error)
  \/ FetchesSettled
  \/ \E i \in 1 .. Cardinality(targetUsers) :
       \E outcome \in {"fulfilled", "rejected"} : CallbackSettles(i, outcome)
  \/ MockSettled
  \/ CallbacksSettled
  \/ StartContinues

\* start() has called x.startMonitoring(onTweetFound): every fetch is at its
\* first await
InitMonitor ==
  /\ suffix = VANITY_SUFFIX
  /\ InitCommon
  /\ HelpersIdle
  /\ mock \in {NoMock, MockConfig}
  /\ fetchPc = [u \in targetUsers |-> "lookup"]
  /\ timeline = [u \in targetUsers |-> NoTimeline]
  /\ apiCreditsError = FALSE
  /\ processedAnyTweet = FALSE
  /\ calls = <<>>
  /\ monPc = "fetching"
  /\ mainPc = "monitoring"

MonitorSpec == InitMonitor /\ [][MonitorNext]_vars

\* ------------------------------------------------------- ai.ts as a system
\* the tweets generateTokenMetadata is called with
MaxText == 2
TweetTexts == UNION {[1 .. n -> Chars \ {"A"}] : n \in 1 .. MaxText}

\* await this.groq.chat.completions.create(...) settles and the function returns
GenerateTokenMetadata ==
  /\ metadata = NotCalled
  /\ metadata' = generateTokenMetadata(tweetText, completion)
  /\ UNCHANGED <<mediaVars, sellVars, receiptVars>>
  /\ UNCHANGED <<launchVars, monitorVars, imageVars, buyVars, tweetText, completion>>

InitAi ==
  /\ suffix = VANITY_SUFFIX
  /\ InitCommon
  /\ MonitorIdle
  /\ ImageIdle
  /\ BuyIdle
  /\ MediaIdle
  /\ SellIdle
  /\ ReceiptIdle
  /\ tweetText \in TweetTexts
  /\ completion \in Completions
  /\ metadata = NotCalled

AiSpec == InitAi /\ [][GenerateTokenMetadata]_vars

\* ---------------------------------------------------- image.ts as a system
\* what readdirSync can list: up to MaxFiles different file names, in any order
MaxFiles == 2
Listings ==
  {l \in UNION {[1 .. n -> FileNames] : n \in 0 .. MaxFiles} :
     \A i, j \in DOMAIN l : l[i] = l[j] => i = j}
Range(f) == {f[i] : i \in DOMAIN f}

\* a call of getRandomImage()
GetRandomImage ==
  /\ randomImage = NoImage
  /\ \E r \in Randoms : randomImage' = getRandomImage(r)
  /\ UNCHANGED <<mediaVars, sellVars, receiptVars>>
  /\ UNCHANGED <<launchVars, monitorVars, aiVars, buyVars, imagesDirectory, readable,
                 availableImages>>

\* the ImageService after its constructor ran loadAvailableImages
InitImage ==
  /\ suffix = VANITY_SUFFIX
  /\ InitCommon
  /\ MonitorIdle
  /\ AiIdle
  /\ BuyIdle
  /\ MediaIdle
  /\ SellIdle
  /\ ReceiptIdle
  /\ imagesDirectory \in Listings
  /\ readable \in SUBSET Range(imagesDirectory)
  /\ availableImages = loadAvailableImages(imagesDirectory)
  /\ randomImage = NoImage

ImageSpec == InitImage /\ [][GetRandomImage]_vars

\* ------------------------------------------------ the initial buys as a system
\* amounts a config.yaml can hold: 0.0001, 0.0005, 0.001, 0.005, 0.01 and 0.1
Amounts == {1, 5, 10, 50, 100, 1000}

\* pumpfun.ts: this.sdk.trade.createAndBuy(wallet, mint, tokenMetadata, amount, ...)
PumpCreateAndBuy ==
  /\ pumpBuy = NoBuy
  /\ pumpBuy' = PumpInitialBuy
  /\ UNCHANGED <<mediaVars, sellVars, receiptVars>>
  /\ UNCHANGED <<launchVars, monitorVars, aiVars, imageVars, initial_buy, flapValue>>

\* flap.ts: writeContract({ functionName: 'newTokenV5', ..., value: quoteAmount })
FlapNewToken ==
  /\ flapValue = NoBuy
  /\ flapValue' = FlapQuoteAmount
  /\ UNCHANGED <<mediaVars, sellVars, receiptVars>>
  /\ UNCHANGED <<launchVars, monitorVars, aiVars, imageVars, initial_buy, pumpBuy>>

BuyNext == PumpCreateAndBuy \/ FlapNewToken

InitBuy ==
  /\ suffix = VANITY_SUFFIX
  /\ InitCommon
  /\ MonitorIdle
  /\ AiIdle
  /\ ImageIdle
  /\ MediaIdle
  /\ SellIdle
  /\ ReceiptIdle
  /\ initial_buy \in [solana : Amounts, bsc : Amounts]
  /\ pumpBuy = NoBuy
  /\ flapValue = NoBuy

BuySpec == InitBuy /\ [][BuyNext]_vars

\* ---------------------------------------- the media of the tweet as a system
\* The X API answers a timeline request with the tweets, newest first, and in
\* includes.media the media objects their attachments refer to, in the order of
\* the tweets
MediaTimelines ==
  {tl \in UNION {[1 .. n -> MediaEntries] : n \in 1 .. MaxTimeline} :
     \A i, j \in DOMAIN tl : (HasMedia(tl[i]) /\ tl[i] = tl[j]) => i = j}
IncludesOf(tl) ==
  LET attached == SelectSeq(tl, HasMedia)
  IN [i \in 1 .. Len(attached) |-> MediaOfEntry(attached[i])]

\* the fetch of a user builds the tweet object from the answer
BuildTweetImage ==
  /\ tweetImage = NoTweetImage
  /\ tweetImage' = ExtractImage(response)
  /\ UNCHANGED <<launchVars, monitorVars, aiVars, imageVars, buyVars, sellVars, receiptVars,
                 response>>

InitMedia ==
  /\ suffix = VANITY_SUFFIX
  /\ InitCommon
  /\ MonitorIdle
  /\ AiIdle
  /\ ImageIdle
  /\ BuyIdle
  /\ SellIdle
  /\ ReceiptIdle
  /\ \E tl \in MediaTimelines : response = [data |-> tl, includes |-> IncludesOf(tl)]
  /\ tweetImage = NoTweetImage

MediaSpec == InitMedia /\ [][BuildTweetImage]_vars

\* ------------------------------------ flap.ts: sellTokens and sellAllTokens
MaxBalance == 2
Balances == 0 .. MaxBalance

Tx(functionName, a) == [functionName |-> functionName, amount |-> a, status |-> "pending"]

\* what waitForTransactionReceipt settles with: a receipt of either status, or a
\* rejection
ReceiptOutcomes == {"success", "reverted", "timeout"}

\* the receipt of the transaction submitted last
Mined(status) == [txs EXCEPT ![Len(txs)].status = status]

UnchangedBySell ==
  UNCHANGED <<launchVars, monitorVars, aiVars, imageVars, buyVars, mediaVars, receiptVars>>

\* the wallet receives or sends tokens while a call is under way
Transfer(b) ==
  /\ sellPc \notin {"idle", "returned", "thrown"}
  /\ b # balanceOf
  /\ balanceOf' = b
  /\ UNCHANGED <<sellPc, balance, amount, txs>>
  /\ UnchangedBySell

\* sellAllTokens(tokenAddress) up to `await this.getTokenBalance(tokenAddress)`
SellAllTokens ==
  /\ sellPc = "idle"
  /\ sellPc' = "balanceOf"
  /\ UNCHANGED <<balanceOf, balance, amount, txs>>
  /\ UnchangedBySell

\* readContract(balanceOf) settles; zero returns, otherwise sellTokens(tokenAddress,
\* balance) runs to its writeContract(approve)
BalanceSettles ==
  /\ sellPc = "balanceOf"
  /\ balance' = balanceOf
  /\ IF balanceOf = 0
       THEN sellPc' = "returned" /\ UNCHANGED amount
       ELSE sellPc' = "approve" /\ amount' = balanceOf
  /\ UNCHANGED <<balanceOf, txs>>
  /\ UnchangedBySell

\* sellTokens(tokenAddress, amount) called on its own, up to writeContract(approve)
SellTokens(a) ==
  /\ sellPc = "idle"
  /\ amount' = a
  /\ sellPc' = "approve"
  /\ UNCHANGED <<balanceOf, balance, txs>>
  /\ UnchangedBySell

\* a variant of ApproveSubmitted that does not await the receipt of the approve
\* transaction before the sell transaction is sent
ApproveSubmittedNoWait(ok) ==
  /\ sellPc = "approve"
  /\ IF ok
       THEN /\ txs' = txs \o <<Tx("approve", amount), Tx("sell", amount)>>
            /\ sellPc' = "sellReceipt"
       ELSE /\ sellPc' = "thrown"
            /\ UNCHANGED txs
  /\ UNCHANGED <<balanceOf, balance, amount>>
  /\ UnchangedBySell

\* writeContract(approve, [FLAP_PORTAL_ADDRESS, amount]) settles: the transaction
\* was sent and its receipt is awaited, or the call rejected
ApproveSubmitted(ok) ==
  /\ sellPc = "approve"
  /\ IF ok
       THEN /\ txs' = Append(txs, Tx("approve", amount))
            /\ sellPc' = "approveReceipt"
       ELSE /\ sellPc' = "thrown"
            /\ UNCHANGED txs
  /\ UNCHANGED <<balanceOf, balance, amount>>
  /\ UnchangedBySell

\* waitForTransactionReceipt({ hash: approveHash }) settles; with a receipt,
\* whatever its status, sellTokens goes on to writeContract(sell)
ApproveReceipt(outcome) ==
  /\ sellPc = "approveReceipt"
  /\ IF outcome = "timeout"
       THEN /\ sellPc' = "thrown"
            /\ UNCHANGED txs
       ELSE /\ txs' = Mined(outcome)
            /\ sellPc' = "sell"
  /\ UNCHANGED <<balanceOf, balance, amount>>
  /\ UnchangedBySell

\* writeContract(sell, [tokenAddress, amount, 0]) settles
SellSubmitted(ok) ==
  /\ sellPc = "sell"
  /\ IF ok
       THEN /\ txs' = Append(txs, Tx("sell", amount))
            /\ sellPc' = "sellReceipt"
       ELSE /\ sellPc' = "thrown"
            /\ UNCHANGED txs
  /\ UNCHANGED <<balanceOf, balance, amount>>
  /\ UnchangedBySell

\* waitForTransactionReceipt({ hash }) settles; sellTokens returns the hash
SellReceipt(outcome) ==
  /\ sellPc = "sellReceipt"
  /\ IF outcome = "timeout"
       THEN /\ sellPc' = "thrown"
            /\ UNCHANGED txs
       ELSE /\ txs' = Mined(outcome)
            /\ sellPc' = "returned"
  /\ UNCHANGED <<balanceOf, balance, amount>>
  /\ UnchangedBySell

SellNext ==
  \/ \E b \in Balances : Transfer(b)
  \/ SellAllTokens
  \/ BalanceSettles
  \/ \E a \in Balances : SellTokens(a)
  \/ \E ok \in BOOLEAN : ApproveSubmitted(ok)
  \/ \E outcome \in ReceiptOutcomes : ApproveReceipt(outcome)
  \/ \E ok \in BOOLEAN : SellSubmitted(ok)
  \/ \E outcome \in ReceiptOutcomes : SellReceipt(outcome)

InitSell ==
  /\ suffix = VANITY_SUFFIX
  /\ InitCommon
  /\ MonitorIdle
  /\ AiIdle
  /\ ImageIdle
  /\ BuyIdle
  /\ MediaIdle
  /\ ReceiptIdle
  /\ sellPc = "idle"
  /\ balanceOf \in Balances
  /\ balance = NoAmount
  /\ amount = NoAmount
  /\ txs = <<>>

SellSpec == InitSell /\ [][SellNext]_vars

\* ---------------------------- flap.ts: createToken from the receipt to its end
MaxLogs == 3

\* a log as the loop sees it: without topics[0], not decodable with FLAP_ABI,
\* decoded as another event, or decoded as TokenCreated with args.token
LogEntries ==
  {Log("NoTopics", NoAddress), Log("Undecodable", NoAddress), Log("OtherEvent", NoAddress)}
    \cup {Log("TokenCreated", a) : a \in Addresses \cup {ZERO_ADDRESS}}

Receipts == UNION {[1 .. n -> LogEntries] : n \in 0 .. MaxLogs}

Thrown(message) == [kind |-> message, token |-> NoAddress]
ReturnedToken(token) == [kind |-> "returned", token |-> token]

\* the loop over receipt.logs, the zero-address check and the return
ParseReceipt ==
  /\ createTokenResult = NotReturned
  /\ createTokenResult' =
       IF ParseLogs(receipt) = ZERO_ADDRESS
         THEN Thrown("Token address not found in transaction logs")
         ELSE ReturnedToken(ParseLogs(receipt))
  /\ UNCHANGED <<launchVars, monitorVars, aiVars, imageVars, buyVars, mediaVars, sellVars,
                 receipt>>

InitReceipt ==
  /\ suffix = VANITY_SUFFIX
  /\ InitCommon
  /\ MonitorIdle
  /\ AiIdle
  /\ ImageIdle
  /\ BuyIdle
  /\ MediaIdle
  /\ SellIdle
  /\ receipt \in Receipts
  /\ createTokenResult = NotReturned

ReceiptSpec == InitReceipt /\ [][ParseReceipt]_vars

\* ------------------------------------------------------------ vocabulary
\* s ends with suf
HasSuffix(s, suf) == \E k \in 0 .. Len(s) : SubSeq(s, k + 1, Len(s)) = suf

\* findVanityTokenSalt of tweet t has been entered / is executing / has returned
SearchStarted(t) == seed[t] # NoSalt
InSearch(t) == flapPc[t] \in {"search", "loop", "return"}
Returned(t) == found[t] # NoResult

\* the CREATE2 address of (FLAP_PORTAL_ADDRESS, s, minimal proxy of
\* NON_TAX_TOKEN_IMPL), as far as the derivation has been evaluated
VanityArgs(s) ==
  <<toLowerCase(FLAP_PORTAL_ADDRESS), toBytes(s), MinimalProxyBytecode(NON_TAX_TOKEN_IMPL)>>
VanityKnown(s) == VanityArgs(s) \in DOMAIN create2Table
VanityAddress(s) == create2Table[VanityArgs(s)]
Accepted(s) == VanityKnown(s) /\ HasSuffix(toLowerCase(VanityAddress(s)), suffix)
Rejected(s) == VanityKnown(s) /\ ~HasSuffix(toLowerCase(VanityAddress(s)), suffix)

\* the k-th element of the hash chain of seed sd: keccak256(toHex(sd)), then
\* keccak256 of the element before; NoSalt where not yet evaluated
KeccakOf(x) == IF x \in DOMAIN keccakTable THEN keccakTable[x] ELSE NoSalt
RECURSIVE ChainSalt(_, _)
ChainSalt(sd, k) ==
  IF k = 0 THEN KeccakOf(NumSalts + sd) ELSE KeccakOf(ChainSalt(sd, k - 1))

\* ------------------------------------------------------------------ claims
\* C1: whenever findVanityTokenSalt has returned {salt, address}, the lowercase
\* hex form of address ends with the suffix '8888'.
C1_ReturnedAddressEndsWithSuffix ==
  \A t \in Tweets :
    Returned(t) => HasSuffix(toLowerCase(found[t].address), suffix)

C1_Witness == \E t \in Tweets : Returned(t)

ChainNeverMatches(t) ==
  /\ SearchStarted(t)
  /\ \A k \in 0 .. (NumSalts - 1) :
       /\ ChainSalt(seed[t], k) # NoSalt
       /\ Rejected(ChainSalt(seed[t], k))

C3_SingleHashChain ==
  \A t \in Tweets :
    /\ (SearchStarted(t) /\ iterations[t] < IterCap) =>
         /\ salt[t] = ChainSalt(seed[t], iterations[t])
         /\ \A k \in 0 .. (iterations[t] - 1) : Rejected(ChainSalt(seed[t], k))
    /\ Returned(t) =>
         /\ iterations[t] < IterCap
         /\ found[t].salt = ChainSalt(seed[t], iterations[t])
         /\ Accepted(found[t].salt)

C3_Witness ==
  \E t \in Tweets : Returned(t) /\ iterations[t] >= 1 /\ flapPc[t] = "submit"

\* C4: the address findVanityTokenSalt returns is the address its loop
\* condition tested last, and it is the CREATE2 address of
\* (FLAP_PORTAL_ADDRESS, returned salt, minimal proxy of NON_TAX_TOKEN_IMPL).
C4_ReturnedAddressIsPrediction ==
  \A t \in Tweets :
    Returned(t) =>
      /\ VanityKnown(found[t].salt)
      /\ found[t].address = VanityAddress(found[t].salt)
      /\ found[t].address = tested[t]

C4_Witness ==
  \E t \in Tweets : Returned(t) /\ tested[t] = found[t].address /\ tested[t] # NoAddress

\* C5 as stated: a search does not go on after a maximum number of iterations
\* without a match (it fails with VanitySearchExhausted instead).  IterCap
\* iterations mean that every salt of the chain has been rejected.
C5_SearchStopsAtMaxIterations ==
  \A t \in Tweets : ~(flapPc[t] = "loop" /\ iterations[t] >= IterCap)

\* C6 as stated: while a search is executing, the pending asynchronous tasks
\* (the pump.fun launch, the uploads of other tweets) can take their steps.
C6_SearchLetsPendingTasksStep ==
  \A t, u \in Tweets :
    InSearch(t) =>
      /\ (pumpPc[u] = "pending" => ENABLED PumpSettles(u))
      /\ (flapPc[u] = "upload" => ENABLED UploadSettles(u, "cid"))

\* C7: a step of the search issues no network or disk request and changes no
\* state of the services or of the chain: only the search's own locals (and
\* its position) change.
C7_SearchHasNoSideEffects ==
  [][\A t \in Tweets :
       (running = t /\ InSearch(t)) =>
         /\ UNCHANGED <<io, txParams, deployed, tokenAddress, pumpPc, suffix>>
         /\ \A u \in Tweets \ {t} : flapPc'[u] = flapPc[u]]_vars

C7_Witness ==
  \E t \in Tweets : flapPc[t] = "return" /\ iterations[t] >= 1 /\ io # {}

\* C8: a step of one search leaves the seed, salt, iteration counter and result
\* of every other search unchanged.
C8_SearchesShareNoState ==
  [][\A t \in Tweets :
       (running = t /\ InSearch(t)) =>
         \A u \in Tweets \ {t} :
           /\ seed'[u] = seed[u]
           /\ salt'[u] = salt[u]
           /\ iterations'[u] = iterations[u]
           /\ tested'[u] = tested[u]
           /\ found'[u] = found[u]]_vars

C8_Witness ==
  \E t, u \in Tweets :
    /\ t # u
    /\ Returned(t)
    /\ Returned(u)
    /\ seed[t] # seed[u]
    /\ iterations[t] >= 1

\* C9: when the portal clones NON_TAX_TOKEN_IMPL (deployer and bytecode as
\* predicted), the token address createToken returns is the address the search
\* predicted, and it ends with the suffix.
C9_CreatedTokenIsPredicted ==
  \A t \in Tweets :
    (flapPc[t] = "created" /\ deployed[t].impl = NON_TAX_TOKEN_IMPL) =>
      /\ tokenAddress[t] = found[t].address
      /\ HasSuffix(toLowerCase(tokenAddress[t]), suffix)

C9_Witness ==
  \E t \in Tweets : flapPc[t] = "created" /\ deployed[t].impl = NON_TAX_TOKEN_IMPL

CallsFor(u) == {i \in DOMAIN calls : calls[i].tweet.user = u}
\* the timeline of u was fetched and holds at least one entry
HasTweets(u) == Len(timeline[u]) > 0
\* the fetch of u is over and obtained no tweet
NoTweetObtained(u) == FetchDone(u) /\ ~HasTweets(u)
Settled == monPc \in {"resolved", "rejected"}

\* C11: for every target user whose lookup succeeded and whose timeline answer is
\* not empty, the callback has been invoked exactly once with that user's tweet:
\* tweetText is the text of the first entry of the answer, user is the username
\* and tweetUrl is https://x.com/<username>/status/<id of the first entry>.
C11_LatestTweetGoesToCallback ==
  \A u \in targetUsers :
    HasTweets(u) =>
      /\ Cardinality(CallsFor(u)) = 1
      /\ \A i \in CallsFor(u) :
           /\ calls[i].tweet.tweetText = timeline[u][1].text
           /\ calls[i].tweet.user = u
           /\ calls[i].tweet.tweetUrl = <<"https://x.com/", u, "/status/", timeline[u][1].id>>

\* both users have a timeline of two different entries and startMonitoring has
\* settled
C11_Witness ==
  /\ Settled
  /\ \A u \in targetUsers :
       /\ Len(timeline[u]) = MaxTimeline
       /\ timeline[u][1] # timeline[u][MaxTimeline]

\* C12 as stated: when no tweet is obtained for a target user (the user has no
\* data, the timeline answer is empty, or the fetch failed with an error other
\* than depleted credits), the callback is not invoked for that user and
\* startMonitoring does not throw.
C12_NoTweetNoCallbackNoThrow ==
  \A u \in targetUsers :
    (NoTweetObtained(u) /\ fetchPc[u] # "credits depleted") =>
      /\ CallsFor(u) = {}
      /\ monPc # "rejected"

\* C13 as stated: when the fetches fail with depleted credits, startMonitoring
\* completes without throwing and without invoking the callback.
C13_CreditsDepletedNoCallbackNoThrow ==
  (Settled /\ \A u \in targetUsers : fetchPc[u] = "credits depleted") =>
    /\ monPc = "resolved"
    /\ calls = <<>>

\* C14 as stated: startMonitoring settles only after every callback it started
\* has settled; while a callback is pending, startMonitoring is pending.
C14_PendingCallbackKeepsMonitoringPending ==
  (\E i \in DOMAIN calls : calls[i].state = "pending") => ~Settled

\* C19 as stated: whatever the deployments of the tweets do, a run that is over
\* has reached process.exit(0).
C19_RunEndsAtExit ==
  mainPc # "monitoring" => mainPc = "exited"

\* ------------------------------------------------------------ ai vocabulary
Called == metadata # NotCalled
\* the LLM answered with a non-empty text
HasContent == completion.kind = "content" /\ Len(completion.content) > 0
\* the text is a JSON object: an opening brace, members, a closing brace
IsJsonObject(c) ==
  /\ Len(c) >= 2
  /\ c[1] = Brace("{")
  /\ c[Len(c)] = Brace("}")
  /\ \A i \in 2 .. (Len(c) - 1) : c[i].t = "member"
\* the text is valid JSON
IsJson(c) == IsJsonObject(c) \/ c = <<Brace("null")>>
\* the value the LLM gave for a key (the last member of that key)
LlmHas(key) == \E i \in DOMAIN completion.content : completion.content[i].key = key
LlmValue(key) ==
  LET c == completion.content
      last == CHOOSE i \in DOMAIN c :
                c[i].key = key /\ \A j \in DOMAIN c : (j > i => c[j].key # key)
  IN c[last].value
ContainsChinese(text) == \E i \in DOMAIN text : text[i] = "U+8BDD"
\* out is s with its lower-case letters replaced by their capitals
IsUpperCased(out, str) ==
  /\ Len(out) = Len(str)
  /\ \A i \in DOMAIN str : out[i] = (IF str[i] = "a" THEN "A" ELSE str[i])

\* C15: generateTokenMetadata never throws: it returns null or a metadata
\* object.  It returns null when the LLM call rejects, when the answer has no
\* content and when the content is not valid JSON; it returns metadata only when
\* the content was parsed successfully.
C15_NullUnlessContentParsed ==
  Called =>
    /\ metadata.kind \in {"null", "metadata"}
    /\ ~HasContent => metadata = Null
    /\ (HasContent /\ ~IsJson(completion.content)) => metadata = Null
    /\ metadata.kind = "metadata" => (HasContent /\ IsJson(completion.content))

\* the LLM answered with a text that is not valid JSON, and null was returned
C15_Witness ==
  /\ Called
  /\ HasContent
  /\ ~IsJson(completion.content)
  /\ metadata = Null

\* C16: in the metadata returned for a tweet without Chinese characters, name and
\* symbol are the LLM's values in upper case and keyword is the LLM's value; for
\* a tweet with Chinese characters all three are the LLM's values, unchanged.
C16_UpperCaseUnlessChinese ==
  (Called /\ metadata.kind = "metadata" /\ LlmHas("name") /\ LlmHas("symbol")
     /\ LlmHas("keyword")) =>
    /\ metadata.keyword = LlmValue("keyword")
    /\ IF ContainsChinese(tweetText)
         THEN /\ metadata.name = LlmValue("name")
              /\ metadata.symbol = LlmValue("symbol")
         ELSE /\ IsUpperCased(metadata.name, LlmValue("name"))
              /\ IsUpperCased(metadata.symbol, LlmValue("symbol"))

\* a tweet without Chinese characters got metadata whose name and symbol differ
\* from what the LLM wrote
C16_Witness ==
  /\ Called
  /\ ~ContainsChinese(tweetText)
  /\ metadata.kind = "metadata"
  /\ metadata.name # LlmValue("name")
  /\ metadata.symbol # LlmValue("symbol")

\* C17: getRandomImage returns null when there is no available image; when
\* there are available images and they can be read, it returns an image whose
\* fileName is one of getAllImages().
C17_RandomImageIsAnAvailableImage ==
  randomImage # NoImage =>
    /\ Len(availableImages) = 0 => randomImage = Null
    /\ (Len(availableImages) > 0 /\ Range(availableImages) \subseteq readable) =>
         /\ randomImage.kind = "image"
         /\ randomImage.fileName \in Range(getAllImages)
    /\ randomImage.kind = "image" => randomImage.fileName \in Range(getAllImages)

\* an image was returned from a directory that also holds a file that is no image
C17_Witness ==
  /\ randomImage # NoImage
  /\ randomImage.kind = "image"
  /\ Len(availableImages) < Len(imagesDirectory)

\* C18 as stated: the initial buy of each chain is the amount of config.yaml:
\* createAndBuy gets initial_buy.solana in lamports and the newTokenV5
\* transaction carries initial_buy.bsc in gwei (a unit of 0.0001 coin is 10^5
\* lamports, and 10^5 gwei).
C18_InitialBuysComeFromConfig ==
  /\ pumpBuy # NoBuy => pumpBuy = initial_buy.solana * 10 ^ 5
  /\ flapValue # NoBuy => flapValue = initial_buy.bsc * 10 ^ 5

\* C20: the search has no iteration cap.  Once every salt of the hash chain of a
\* search's seed has been rejected, the search is still in its loop and stays
\* there: it has not returned, and createToken has not sent newTokenV5.
C20_NoMatchNeverReturns ==
  \A t \in Tweets :
    ChainNeverMatches(t) =>
      /\ flapPc[t] = "loop"
      /\ ~Returned(t)
      /\ txParams[t] = NoSalt
      /\ deployed[t] = NoDeployment

\* a search has gone on after rejecting every salt of its chain
C20_Witness ==
  \E t \in Tweets : ChainNeverMatches(t) /\ iterations[t] > IterCap

\* the tweet config.yaml's mock section describes
ConfiguredMock ==
  [tweetText |-> mock.tweet_text, user |-> mock.user, tweetUrl |-> mock.tweet_url]
\* the invocations of the callback with the mock tweet
MockCalls == {i \in DOMAIN calls : calls[i].tweet = ConfiguredMock}
\* startMonitoring is past await Promise.all(tweetPromises)
PastFetches == monPc # "fetching"

C22_ImageIsOfLatestTweet ==
  tweetImage # NoTweetImage =>
    LET latest == response.data[1] IN
      IF ~HasMedia(latest)
        THEN tweetImage.imageUrl = Absent /\ ~tweetImage.isVideo
        ELSE LET media == MediaOfEntry(latest) IN
          /\ tweetImage.isVideo = (media.type # "photo" /\ tweetImage.imageUrl # Absent)
          /\ tweetImage.imageUrl =
               (IF media.type = "photo" THEN media.url ELSE media.preview_image_url)

\* a timeline answer of one tweet
OneTweet == CHOOSE tl \in Timelines : Len(tl) = 1
\* in this step the fetch of u obtained a tweet
ObtainsTweet(u) == fetchPc[u] = "timeline" /\ fetchPc'[u] = "tweet"
\* in this step the callback was invoked for u, and no other invocation changed
StartsCallback(u) ==
  /\ Len(calls') = Len(calls) + 1
  /\ calls'[Len(calls')].tweet.user = u
  /\ calls'[Len(calls')].state = "pending"
  /\ \A i \in DOMAIN calls : calls'[i] = calls[i]

\* C23: a user's callback is started in the step in which that user's tweet is
\* obtained, and that step can be taken whenever the user's timeline request is
\* outstanding: whatever the fetches of the other users did (pending, failed) and
\* whether or not other callbacks are still pending.
C23_CallbackStartsWithItsFetch ==
  /\ [](\A u \in targetUsers :
          fetchPc[u] = "timeline" => ENABLED TimelineSettles(u, OneTweet))
  /\ [][\A u \in targetUsers : ObtainsTweet(u) => StartsCallback(u)]_vars

\* the callbacks of both users are in flight at the same time
C23_Witness ==
  /\ Len(calls) = Cardinality(targetUsers)
  /\ \A i \in DOMAIN calls : calls[i].state = "pending"

\* createToken of tweet t has called walletClient.writeContract(newTokenV5)
Submitted(t) == [kind |-> "newTokenV5", by |-> t] \in io

\* C24: as long as uploadFlapMetadata has not returned a CID to createToken, no
\* vanity search has started and no newTokenV5 transaction was submitted; once it
\* returned null, createToken has thrown and stays so.
C24_NoSearchNoTxWithoutCid ==
  \A t \in Tweets :
    /\ metadataCid[t] # "cid"
         => ~SearchStarted(t) /\ ~InSearch(t) /\ ~Returned(t) /\ ~Submitted(t)
            /\ deployed[t] = NoDeployment
    /\ metadataCid[t] = "null" => flapPc[t] = "failed"

\* an upload returned null and createToken threw
C24_Witness ==
  \E t \in Tweets : metadataCid[t] = "null" /\ flapPc[t] = "failed" /\ ~Submitted(t)

\* the positions of the receipt's logs that decode as TokenCreated
TokenCreatedLogs == {i \in DOMAIN receipt : receipt[i].kind = "TokenCreated"}
FirstTokenCreated == CHOOSE i \in TokenCreatedLogs : \A j \in TokenCreatedLogs : i <= j

AfterApprove(i) ==
  /\ i > 1
  /\ txs[i - 1].functionName = "approve"
  /\ txs[i - 1].amount = txs[i].amount
  /\ txs[i - 1].status # "pending"

\* sellAllTokens has read the balance
BalanceRead == balance # NoAmount

\* C26: a sell transaction is submitted only after the receipt of the approve
\* transaction for the same amount arrived; sellAllTokens reads the balance
\* once, every transaction it submits carries that amount, and it submits none
\* when the balance read is zero.
C26_SellAfterApproveOfBalanceRead ==
  /\ [](/\ \A i \in DOMAIN txs : txs[i].functionName = "sell" => AfterApprove(i)
        /\ BalanceRead => /\ \A i \in DOMAIN txs : txs[i].amount = balance
                          /\ balance = 0 => txs = <<>> /\ sellPc = "returned")
  /\ [][/\ balance' # balance => ~BalanceRead /\ balance' = balanceOf
        /\ \A i \in DOMAIN txs : i \in DOMAIN txs' /\ txs'[i].amount = txs[i].amount]_vars

\* sellAllTokens sold the balance it read, which is no longer the wallet's balance
C26_Witness ==
  /\ BalanceRead
  /\ balance # balanceOf
  /\ Len(txs) = 2
  /\ txs[2].functionName = "sell"
  /\ txs[2].status = "success"
  /\ sellPc = "returned"

====
